---- MODULE Spec2Model ----
(***************************************************************************)
(* A model of src/sync_l1s.py: the one-directional synchronisation of the  *)
(* Glacier chain directory into an Attio object and list.                 *)
(*                                                                         *)
(* The program is one asyncio process per run: main() fetches the chain    *)
(* list, enumerates the list's members, then gathers one                   *)
(* upsert_record_and_add_to_list task per chain.  Every registry call goes *)
(* through _make_attio_request, which retries under api_semaphore.  The    *)
(* registry (Attio) is the environment; it answers by the contract of      *)
(* spec.md section 6 and persists between runs.                            *)
(***************************************************************************)
EXTENDS Naturals, Sequences, FiniteSets, TLC

(***************************************************************************)
(* Program constants (src/sync_l1s.py:21-23).                              *)
(***************************************************************************)
CONCURRENCY_LIMIT == 10
MAX_RETRIES == 5
INITIAL_RETRY_DELAY == 1

(***************************************************************************)
(* Bounds of the model.                                                    *)
(***************************************************************************)
\* the largest number of chain records in a concurrent source snapshot
MaxChains == 2
\* the number of times the script is run against the same registry
MaxRuns == 2
\* the number of list entries the registry returns per page
PageSize == 1

(***************************************************************************)
(* JSON values.  A missing key is JAbsent; it exists only as the result of *)
(* looking a key up, never as a value that is sent.                        *)
(***************************************************************************)
JAbsent == [tag |-> "absent"]
JNull == [tag |-> "null"]
JStr(s) == [tag |-> "str", s |-> s]
JInt(n) == [tag |-> "int", n |-> n]
JBool(b) == [tag |-> "bool", b |-> b]

\* dict.get(key, default): the default only when the key is missing
Get(d, k, default) == IF d[k] = JAbsent THEN default ELSE d[k]

\* dict.get(key): None when the key is missing
GetOrNone(d, k) == Get(d, k, JNull)

\* Python truthiness of a JSON value
Truthy(v) ==
    CASE v.tag = "null" -> FALSE
      [] v.tag = "absent" -> FALSE
      [] v.tag = "str" -> v.s # ""
      [] v.tag = "int" -> v.n # 0
      [] v.tag = "bool" -> v.b

IntToStr(n) ==
    CASE n = 0 -> "0"
      [] n = 1 -> "1"
      [] n = 2 -> "2"
      [] n = 3 -> "3"
      [] OTHER -> "9"

\* Python str(v), also what an f-string renders
PyStr(v) ==
    CASE v.tag = "null" -> "None"
      [] v.tag = "str" -> v.s
      [] v.tag = "int" -> IntToStr(v.n)
      [] v.tag = "bool" -> IF v.b THEN "True" ELSE "False"

(***************************************************************************)
(* The Field Mapper: lines 181-196 of upsert_record_and_add_to_list.       *)
(***************************************************************************)
FieldKeys == {"chain_id", "name", "rpc", "status", "logo_url"}

is_testnet(chain_data) == Get(chain_data, "isTestnet", JBool(FALSE))

chain_display_name(chain_data) ==
    PyStr(Get(chain_data, "chainName", JStr("Unknown Chain")))
        \o (IF Truthy(is_testnet(chain_data)) THEN " (Testnet)" ELSE "")

StatusOf(chain_data) ==
    IF Truthy(is_testnet(chain_data)) THEN "Testnet" ELSE "Mainnet"

\* the dict literal of lines 185-192, nulls still in it
RawValues(chain_data) ==
    [k \in FieldKeys |->
        CASE k = "chain_id" -> JStr(PyStr(Get(chain_data, "chainId", JStr(""))))
          [] k = "name" -> JStr(chain_display_name(chain_data))
          [] k = "rpc" -> GetOrNone(chain_data, "rpcUrl")
          [] k = "status" -> JStr(StatusOf(chain_data))
          [] k = "logo_url" -> GetOrNone(chain_data, "chainLogoUri")]

KeepAll(d) == d

\* line 196: {k: v for k, v in values_to_upsert.items() if v is not None}
DropNone(d) == [k \in {x \in DOMAIN d : d[x] # JNull} |-> d[k]]

values_to_upsert(chain_data) == DropNone(RawValues(chain_data))

\* line 198: values_to_upsert.get("chain_id") is truthy
HasChainId(values) ==
    /\ "chain_id" \in DOMAIN values
    /\ Truthy(values["chain_id"])

(***************************************************************************)
(* Back-off: INITIAL_RETRY_DELAY * (2 ** attempt), lines 53, 74 and 96.    *)
(***************************************************************************)
RECURSIVE Pow2(_)
Pow2(n) == IF n = 0 THEN 1 ELSE 2 * Pow2(n - 1)

WaitTimeLinear(attempt) == INITIAL_RETRY_DELAY * (attempt + 1)

WaitTime(attempt) == INITIAL_RETRY_DELAY * Pow2(attempt)

(***************************************************************************)
(* State.                                                                  *)
(***************************************************************************)
VARIABLES
    chains,         \* the chain directory's snapshot: what GET /v1/chains holds
    faults,         \* the kinds of failure the registry shows in this behaviour
    records,        \* the registry's records, oldest first; record_id = index
    entries,        \* the target list's entries, oldest first, by record_id
    run,            \* which run of the script this is
    prev,           \* the registry as it was when this run started
    clean,          \* every call of this run has succeeded so far
    mainPc,         \* where main() is
    all_chains,     \* main's all_chains
    after,          \* params["after"] of get_existing_list_entry_record_ids
    existing,       \* existing_record_ids, then the shared existing_list_member_ids
    task,           \* one upsert_record_and_add_to_list coroutine per chain
    req,            \* each caller's _make_attio_request frame; caller 0 is main
    api_semaphore,  \* the permits api_semaphore has left
    sent            \* requests each task has put on the wire, by method

vars == <<chains, faults, records, entries, run, prev, clean, mainPc, all_chains,
          after, existing, task, req, api_semaphore, sent>>

Tasks == 1..Len(chains)
Callers == 0..Len(chains)

Range(s) == {s[i] : i \in 1..Len(s)}

(***************************************************************************)
(* Response bodies, as far as the program looks into them.                 *)
(*   ok        {"data": {"id": {"record_id": rid}}}                        *)
(*   page      {"data": [...], "result_set": {"next_page": next}}          *)
(*   nodata    a JSON object without a "data" key                          *)
(*   datanull  {"data": null}                                              *)
(*   noid      {"data": {...}} without a usable id.record_id               *)
(*   error     the JSON body of a non-2xx answer                           *)
(* None is the helper's None.                                              *)
(***************************************************************************)
Body(kind, rid, ids, next) == [kind |-> kind, rid |-> rid, ids |-> ids, next |-> next]
None == Body("None", 0, <<>>, 0)
OkBody(rid) == Body("ok", rid, <<>>, 0)
Malformed == {"nodata", "datanull", "noid"}
AllFaults == {"429", "500", "raise"} \cup Malformed

IdleFrame ==
    [phase |-> "idle", method |-> "", attempt |-> 0, result |-> None,
     log |-> <<>>, sleeps |-> <<>>]

\* entering _make_attio_request: attempt 0 of range(MAX_RETRIES)
NewFrame(method) == [IdleFrame EXCEPT !.phase = "acquire", !.method = method]

(***************************************************************************)
(* The registry: what session.request (line 51) is answered with.          *)
(***************************************************************************)
Matches(values) ==
    {r \in 1..Len(records) : records[r]["chain_id"] = values["chain_id"]}

\* create-or-update: the values sent overwrite, the others stay
Merge(old, new) ==
    [k \in DOMAIN old \cup DOMAIN new |-> IF k \in DOMAIN new THEN new[k] ELSE old[k]]

PutRecords(values) ==
    IF Matches(values) = {} THEN Append(records, values)
    ELSE [r \in 1..Len(records) |->
            IF r \in Matches(values) THEN Merge(records[r], values) ELSE records[r]]

PutRid(values) ==
    IF Matches(values) = {} THEN Len(records) + 1
    ELSE CHOOSE r \in Matches(values) : TRUE

\* one page of GET /lists/{list_id}/entries after the cursor
PageIds(cursor) ==
    SubSeq(entries, cursor + 1,
           IF cursor + PageSize < Len(entries) THEN cursor + PageSize ELSE Len(entries))

NextPage(cursor) == IF cursor + PageSize < Len(entries) THEN cursor + PageSize ELSE 0

\* the caller's request can be carried out by the registry
Accepts(c) ==
    CASE req[c].method = "GET" -> TRUE
      [] req[c].method = "PUT" -> Cardinality(Matches(task[c].values)) < 2
      [] req[c].method = "POST" -> task[c].rid \notin Range(entries)

\* the registry's own answer: [status, body]
Answer(c) ==
    CASE req[c].method = "GET" ->
            [status |-> 200, body |-> Body("page", 0, PageIds(after), NextPage(after))]
      [] req[c].method = "PUT" ->
            IF Accepts(c)
            THEN [status |-> IF Matches(task[c].values) = {} THEN 201 ELSE 200,
                  body |-> OkBody(PutRid(task[c].values))]
            ELSE [status |-> 400, body |-> Body("error", 0, <<>>, 0)]
      [] req[c].method = "POST" ->
            IF Accepts(c)
            THEN [status |-> 201, body |-> OkBody(task[c].rid)]
            ELSE [status |-> 409, body |-> Body("error", 0, <<>>, 0)]

\* the registry carries the request out (or not)
Effect(c, applied) ==
    IF applied /\ Accepts(c) /\ req[c].method = "PUT"
    THEN /\ records' = PutRecords(task[c].values)
         /\ entries' = entries
    ELSE IF applied /\ Accepts(c) /\ req[c].method = "POST"
    THEN /\ entries' = Append(entries, task[c].rid)
         /\ records' = records
    ELSE /\ records' = records
         /\ entries' = entries

(***************************************************************************)
(* _make_attio_request, lines 48-102.  A frame's phase is where the        *)
(* coroutine is suspended:                                                 *)
(*   acquire    waiting for api_semaphore (line 50)                        *)
(*   inflight   the request is out, the permit held (line 51)              *)
(*   sleepHeld  asyncio.sleep inside "async with api_semaphore" (58, 74)   *)
(*   sleepFree  asyncio.sleep after an exception handler (line 98)         *)
(*   returned   the helper has returned frame.result to its caller         *)
(* status 0 stands for an exception raised by the request or by            *)
(* response.json(): the three handlers of lines 79-93 only log.            *)
(***************************************************************************)
Is2xx(status) == 200 <= status /\ status < 300

HoldsPermit(frame) == frame.phase \in {"inflight", "sleepHeld"}

Returned(frame, status, body) ==
    [frame EXCEPT !.phase = "returned", !.result = body, !.log = Append(@, status)]

Sleeping(frame, status, phase) ==
    [frame EXCEPT !.phase = phase, !.log = Append(@, status),
                  !.sleeps = Append(@, WaitTime(frame.attempt))]

OnResponseAnyBody(frame, status, body) ==
    IF status = 0
    THEN IF frame.attempt < MAX_RETRIES - 1
         THEN Sleeping(frame, status, "sleepFree")
         ELSE Returned(frame, status, None)
    ELSE IF status = 429
    THEN Sleeping(frame, status, "sleepHeld")
    ELSE Returned(frame, status, body)

\* the frame after one answer, lines 52-101
OnResponse(frame, status, body) ==
    IF status = 0
    THEN IF frame.attempt < MAX_RETRIES - 1
         THEN Sleeping(frame, status, "sleepFree")
         ELSE Returned(frame, status, None)
    ELSE IF status = 429
    THEN Sleeping(frame, status, "sleepHeld")
    ELSE IF ~Is2xx(status)
    THEN IF frame.attempt = MAX_RETRIES - 1
         THEN Returned(frame, status, None)
         ELSE Sleeping(frame, status, "sleepHeld")
    ELSE Returned(frame, status, body)

OnWakeOneMore(frame) ==
    IF frame.attempt < MAX_RETRIES
    THEN [frame EXCEPT !.phase = "acquire", !.attempt = @ + 1]
    ELSE [frame EXCEPT !.phase = "returned", !.result = None]

\* the sleep is over: the next iteration of range(MAX_RETRIES), or line 102
OnWake(frame) ==
    IF frame.attempt + 1 < MAX_RETRIES
    THEN [frame EXCEPT !.phase = "acquire", !.attempt = @ + 1]
    ELSE [frame EXCEPT !.phase = "returned", !.result = None]

\* the caller's frame becomes f; the permit follows the "async with"
SetFrame(c, f) ==
    /\ req' = [req EXCEPT ![c] = f]
    /\ api_semaphore' =
          IF HoldsPermit(req[c]) /\ ~HoldsPermit(f) THEN api_semaphore + 1
          ELSE IF ~HoldsPermit(req[c]) /\ HoldsPermit(f) THEN api_semaphore - 1
          ELSE api_semaphore

CountSent(c) ==
    IF c = 0 THEN sent
    ELSE [sent EXCEPT ![c][req[c].method] = @ + 1]

PermitAlways == TRUE

\* line 36: asyncio.Semaphore(CONCURRENCY_LIMIT) hands a permit out while
\* its value is positive
PermitFree == api_semaphore > 0

\* line 50: a coroutine at "async with api_semaphore" goes on without
\* suspending when a permit is free
Runnable(c) == req[c].phase = "acquire" /\ PermitFree

\* lines 300-304: the event loop runs the coroutines that are ready (the
\* tasks of gather in list order, a caller whose helper has returned, a
\* coroutine a permit is free for), each to its next suspension, before it
\* polls for answers and timers
LoopIdle ==
    /\ ~(mainPc = "gather" /\ \E i \in Tasks : task[i].state = "Pending")
    /\ ~(\E c \in Callers : Runnable(c) \/ req[c].phase = "returned")

\* lines 50-51: take a permit and put the request on the wire
Acquire(c) ==
    /\ Runnable(c)
    /\ SetFrame(c, [req[c] EXCEPT !.phase = "inflight"])
    /\ sent' = CountSent(c)
    /\ UNCHANGED <<chains, faults, records, entries, run, prev, clean, mainPc,
                   all_chains, after, existing, task>>

\* lines 51-101: the answer arrives and the helper acts on it
Respond(c) ==
    /\ req[c].phase = "inflight"
    /\ LoopIdle
    /\ \/ /\ Effect(c, TRUE)
          /\ SetFrame(c, OnResponse(req[c], Answer(c).status, Answer(c).body))
          /\ clean' = (clean /\ Is2xx(Answer(c).status))
       \/ \E kind \in faults \cap Malformed :
             /\ req[c].method = "PUT"
             /\ Accepts(c)
             /\ Effect(c, TRUE)
             /\ SetFrame(c, OnResponse(req[c], 200, Body(kind, 0, <<>>, 0)))
             /\ clean' = FALSE
       \/ /\ "429" \in faults
          /\ Effect(c, FALSE)
          /\ SetFrame(c, OnResponse(req[c], 429, Body("error", 0, <<>>, 0)))
          /\ clean' = FALSE
       \/ /\ "500" \in faults
          /\ Effect(c, FALSE)
          /\ SetFrame(c, OnResponse(req[c], 500, Body("error", 0, <<>>, 0)))
          /\ clean' = FALSE
       \/ \E applied \in BOOLEAN :
             /\ "raise" \in faults
             /\ Effect(c, applied)
             /\ SetFrame(c, OnResponse(req[c], 0, None))
             /\ clean' = FALSE
    /\ UNCHANGED <<chains, faults, run, prev, mainPc, all_chains, after, existing,
                   task, sent>>

\* asyncio.sleep returns
Wake(c) ==
    /\ req[c].phase \in {"sleepHeld", "sleepFree"}
    /\ LoopIdle
    /\ SetFrame(c, OnWake(req[c]))
    /\ UNCHANGED <<chains, faults, records, entries, run, prev, clean, mainPc,
                   all_chains, after, existing, task, sent>>

(***************************************************************************)
(* upsert_record_and_add_to_list, lines 172-277.  A task's state:          *)
(*   Pending       created by main, not yet run                            *)
(*   Mapped        the fields are mapped, the upsert PUT is under way      *)
(*   Upserted      parent_record_id is known, the list-link POST under way *)
(*   SkippedNoKey  returned at line 200                                    *)
(*   Failed        returned at line 221 or 231, or fell through line 277   *)
(*   Linked        returned at line 238 (already in the list) or 271       *)
(*   Raised        an exception left the coroutine                         *)
(*   Cancelled     cancelled when the event loop was torn down             *)
(***************************************************************************)
NoValues == [k \in {} |-> JNull]
PendingTask == [state |-> "Pending", values |-> NoValues, rid |-> 0]
Terminal == {"SkippedNoKey", "Failed", "Linked", "Raised", "Cancelled"}

\* lines 181-217: map the fields, skip without a chain_id, else start the PUT
TaskStart(i) ==
    /\ mainPc = "gather"
    /\ task[i].state = "Pending"
    /\ \A j \in Tasks : j < i => task[j].state # "Pending"
    /\ ~(\E c \in Callers : Runnable(c))
    /\ LET values == values_to_upsert(all_chains[i]) IN
         IF ~HasChainId(values)
         THEN /\ task' = [task EXCEPT ![i].state = "SkippedNoKey"]
              /\ req' = req
         ELSE /\ task' = [task EXCEPT ![i].state = "Mapped", ![i].values = values]
              /\ req' = [req EXCEPT ![i] = NewFrame("PUT")]
    /\ UNCHANGED <<chains, faults, records, entries, run, prev, clean, mainPc,
                   all_chains, after, existing, api_semaphore, sent>>

\* lines 219-231: what the upsert response yields
\*   "failed" (return), "raise" (AttributeError on None.get) or "id"
Extract(body) ==
    CASE body.kind \in {"None", "nodata"} -> "failed"
      [] body.kind = "datanull" -> "raise"
      [] body.kind = "noid" -> "failed"
      [] OTHER -> "id"

NeverMember(rid) == FALSE

\* line 236: the membership check against the shared set
AlreadyMember(rid) == rid \in existing

\* lines 219-258: the PUT has returned
TaskAfterUpsert(i) ==
    /\ mainPc = "gather"
    /\ task[i].state = "Mapped"
    /\ req[i].phase = "returned"
    /\ LET body == req[i].result IN
         CASE Extract(body) = "failed" ->
                /\ task' = [task EXCEPT ![i].state = "Failed"]
                /\ req' = [req EXCEPT ![i] = IdleFrame]
           [] Extract(body) = "raise" ->
                /\ task' = [task EXCEPT ![i].state = "Raised"]
                /\ req' = [req EXCEPT ![i] = IdleFrame]
           [] Extract(body) = "id" /\ AlreadyMember(body.rid) ->
                /\ task' = [task EXCEPT ![i].state = "Linked", ![i].rid = body.rid]
                /\ req' = [req EXCEPT ![i] = IdleFrame]
           [] Extract(body) = "id" /\ ~AlreadyMember(body.rid) ->
                /\ task' = [task EXCEPT ![i].state = "Upserted", ![i].rid = body.rid]
                /\ req' = [req EXCEPT ![i] = NewFrame("POST")]
    /\ UNCHANGED <<chains, faults, records, entries, run, prev, clean, mainPc,
                   all_chains, after, existing, api_semaphore, sent>>

\* lines 260-277: the POST has returned
TaskAfterAdd(i) ==
    /\ mainPc = "gather"
    /\ task[i].state = "Upserted"
    /\ req[i].phase = "returned"
    /\ IF req[i].result # None
       THEN /\ task' = [task EXCEPT ![i].state = "Linked"]
            /\ existing' = existing \cup {task[i].rid}
       ELSE /\ task' = [task EXCEPT ![i].state = "Failed"]
            /\ existing' = existing
    /\ req' = [req EXCEPT ![i] = IdleFrame]
    /\ UNCHANGED <<chains, faults, records, entries, run, prev, clean, mainPc,
                   all_chains, after, api_semaphore, sent>>

(***************************************************************************)
(* main, lines 280-306, with fetch_chains_from_glacier (105-122) and       *)
(* get_existing_list_entry_record_ids (125-169).                           *)
(*   mainPc: fetch -> members -> gather -> done | raised | interrupted     *)
(***************************************************************************)
AlwaysSync(fetched) == FALSE

\* lines 290-292: "if not all_chains: return"
NothingToSync(fetched) == fetched = <<>>

\* lines 289-298: the chain list, or [] when the fetch fails
FetchChains ==
    /\ mainPc = "fetch"
    /\ \E ok \in BOOLEAN :
          /\ all_chains' = IF ok THEN chains ELSE <<>>
          /\ clean' = (clean /\ ok)
          /\ IF ~NothingToSync(IF ok THEN chains ELSE <<>>)
             THEN /\ mainPc' = "members"
                  /\ req' = [req EXCEPT ![0] = NewFrame("GET")]
             ELSE /\ mainPc' = "done"
                  /\ req' = req
    /\ after' = 0
    /\ existing' = {}
    /\ UNCHANGED <<chains, faults, records, entries, run, prev, task,
                   api_semaphore, sent>>

NoMembers(body) == {}

\* lines 153-160: the record_ids of a page's entries
PageMembers(body) == Range(body.ids)

\* lines 149-166: one page of list entries has returned
ListPage ==
    /\ mainPc = "members"
    /\ req[0].phase = "returned"
    /\ LET body == req[0].result IN
         IF body = None
         THEN /\ mainPc' = "gather"
              /\ req' = [req EXCEPT ![0] = IdleFrame]
              /\ UNCHANGED <<existing, after>>
         ELSE /\ existing' = existing \cup PageMembers(body)
              /\ IF body.next # 0
                 THEN /\ after' = body.next
                      /\ req' = [req EXCEPT ![0] = NewFrame("GET")]
                      /\ mainPc' = mainPc
                 ELSE /\ after' = after
                      /\ req' = [req EXCEPT ![0] = IdleFrame]
                      /\ mainPc' = "gather"
    /\ UNCHANGED <<chains, faults, records, entries, run, prev, clean, all_chains,
                   task, api_semaphore, sent>>

\* line 304: every task has returned
GatherDone ==
    /\ mainPc = "gather"
    /\ \A i \in Tasks : task[i].state \in Terminal \ {"Raised"}
    /\ mainPc' = "done"
    /\ UNCHANGED <<chains, faults, records, entries, run, prev, clean, all_chains,
                   after, existing, task, req, api_semaphore, sent>>

\* line 304: gather re-raises a task's exception; main and the session end,
\* and asyncio.run cancels the tasks that are still running
GatherRaise ==
    /\ mainPc = "gather"
    /\ \E i \in Tasks : task[i].state = "Raised"
    /\ mainPc' = "raised"
    /\ task' = [i \in Tasks |->
                  IF task[i].state \in Terminal THEN task[i]
                  ELSE [task[i] EXCEPT !.state = "Cancelled"]]
    /\ req' = [c \in Callers |-> IdleFrame]
    /\ api_semaphore' = CONCURRENCY_LIMIT
    /\ UNCHANGED <<chains, faults, records, entries, run, prev, clean, all_chains,
                   after, existing, sent>>

\* line 314: asyncio.run(main()) is interrupted (KeyboardInterrupt or a
\* cancellation) while main awaits the registry: main and the tasks that
\* still run are cancelled where they stand; no handler catches it, logs a
\* record's outcome or undoes a write.  A request in flight is dropped (a
\* request carried out whose answer is lost is Respond's "raise")
Interrupt ==
    /\ mainPc \in {"members", "gather"}
    /\ mainPc' = "interrupted"
    /\ task' = [i \in Tasks |->
                  IF task[i].state \in Terminal THEN task[i]
                  ELSE [task[i] EXCEPT !.state = "Cancelled"]]
    /\ req' = [c \in Callers |-> IdleFrame]
    /\ api_semaphore' = CONCURRENCY_LIMIT
    /\ UNCHANGED <<chains, faults, records, entries, run, prev, clean, all_chains,
                   after, existing, sent>>

\* the script is started again: a new process against the same registry
Rerun ==
    /\ mainPc \in {"done", "raised", "interrupted"}
    /\ run < MaxRuns
    /\ run' = run + 1
    /\ prev' = [records |-> records, entries |-> entries,
                clean |-> clean /\ mainPc = "done"]
    /\ clean' = TRUE
    /\ mainPc' = "fetch"
    /\ all_chains' = <<>>
    /\ after' = 0
    /\ existing' = {}
    /\ task' = [i \in Tasks |-> PendingTask]
    /\ req' = [c \in Callers |-> IdleFrame]
    /\ api_semaphore' = CONCURRENCY_LIMIT
    /\ sent' = [i \in Tasks |-> [PUT |-> 0, POST |-> 0]]
    /\ UNCHANGED <<chains, faults, records, entries>>

(***************************************************************************)
(* The inputs: chain records, registries and registry behaviours.          *)
(***************************************************************************)
Chain(id, name, testnet, mainnet, rpc, logo) ==
    [chainId |-> id, chainName |-> name, isTestnet |-> testnet,
     isMainnet |-> mainnet, rpcUrl |-> rpc, chainLogoUri |-> logo]

Flags == {JAbsent, JBool(TRUE), JBool(FALSE)}

\* every shape of a chain record
Shapes ==
    {Chain(id, name, t, m, rpc, logo) :
        id \in {JAbsent, JNull, JStr(""), JInt(1), JInt(2)},
        name \in {JAbsent, JStr("A"), JStr("B")},
        t \in Flags, m \in Flags,
        rpc \in {JAbsent, JNull, JStr("https://rpc")},
        logo \in {JAbsent, JNull, JStr("https://logo")}}

Plain(id, name) ==
    Chain(id, JStr(name), JBool(FALSE), JAbsent, JStr("https://rpc"), JAbsent)

\* the chain records of the concurrent snapshots: two of them share a key
Small == <<Plain(JInt(1), "A"), Plain(JInt(1), "B"), Plain(JInt(2), "A")>>

\* the snapshots of up to n records; the tasks run in any order, so one
\* order of each multiset of records is enough
Sorted(n) ==
    {g \in UNION {[1..k -> 1..Len(Small)] : k \in 0..n} :
        \A i \in 1..Len(g) : \A j \in 1..Len(g) : i < j => g[i] <= g[j]}

Snapshots(n) == {[i \in 1..Len(g) |-> Small[g[i]]] : g \in Sorted(n)}

\* registries the first run can meet: empty, the record there (linked or
\* not), a duplicated record, two linked records
Registries ==
    LET v1 == values_to_upsert(Plain(JInt(1), "A"))
        v2 == values_to_upsert(Plain(JInt(2), "A"))
    IN {[records |-> <<>>, entries |-> <<>>],
        [records |-> <<v1>>, entries |-> <<>>],
        [records |-> <<v1>>, entries |-> <<1>>],
        [records |-> <<v1, v1>>, entries |-> <<1, 2>>],
        [records |-> <<v1, v2>>, entries |-> <<1, 2>>]}

\* one record of any shape against a registry that always succeeds; one
\* record against a registry that fails in every way; several records
\* against a registry that fails in at most one way
ShapeScenarios ==
    {[chains |-> <<s>>, faults |-> {}, registry |-> r] :
        s \in Shapes, r \in {[records |-> <<>>, entries |-> <<>>]}}

CallScenarios ==
    {[chains |-> <<Plain(JInt(1), "A")>>, faults |-> AllFaults, registry |-> r] :
        r \in Registries}

ConcurrentScenarios ==
    {[chains |-> cs, faults |-> {}, registry |-> r] :
        cs \in Snapshots(MaxChains), r \in {r \in Registries : Len(r.records) < 2}}
    \cup
    {[chains |-> cs, faults |-> {"datanull"},
      registry |-> [records |-> <<>>, entries |-> <<>>]] :
        cs \in Snapshots(MaxChains)}

Scenarios == ShapeScenarios \cup CallScenarios \cup ConcurrentScenarios

InitFrom(S) ==
    \E sc \in S :
        /\ chains = sc.chains
        /\ faults = sc.faults
        /\ records = sc.registry.records
        /\ entries = sc.registry.entries
        /\ run = 1
        /\ prev = [records |-> sc.registry.records,
                   entries |-> sc.registry.entries, clean |-> FALSE]
        /\ clean = TRUE
        /\ mainPc = "fetch"
        /\ all_chains = <<>>
        /\ after = 0
        /\ existing = {}
        /\ task = [i \in 1..Len(sc.chains) |-> PendingTask]
        /\ req = [c \in 0..Len(sc.chains) |-> IdleFrame]
        /\ api_semaphore = CONCURRENCY_LIMIT
        /\ sent = [i \in 1..Len(sc.chains) |-> [PUT |-> 0, POST |-> 0]]

Init == InitFrom(Scenarios)

Next ==
    \/ FetchChains
    \/ ListPage
    \/ \E c \in Callers : Acquire(c)
    \/ \E c \in Callers : Respond(c)
    \/ \E c \in Callers : Wake(c)
    \/ \E i \in Tasks : TaskStart(i)
    \/ \E i \in Tasks : TaskAfterUpsert(i)
    \/ \E i \in Tasks : TaskAfterAdd(i)
    \/ GatherDone
    \/ GatherRaise
    \/ Interrupt
    \/ Rerun

Spec == Init /\ [][Next]_vars

\* one more record than api_semaphore has permits, each already in the
\* registry and on the list, so that every task makes its PUT and nothing
\* else; and one record against a registry that fails in every way
CapScenarios ==
    {[chains |-> [i \in 1..(CONCURRENCY_LIMIT + 1) |-> Plain(JInt(1), "A")],
      faults |-> {},
      registry |-> [records |-> <<values_to_upsert(Plain(JInt(1), "A"))>>,
                    entries |-> <<1>>]]}
    \cup
    {[chains |-> <<Plain(JInt(1), "A")>>, faults |-> AllFaults,
      registry |-> [records |-> <<>>, entries |-> <<>>]]}

InitCap == InitFrom(CapScenarios)

SpecCap == InitCap /\ [][Next]_vars

(***************************************************************************)
(* Helpers of the properties.                                              *)
(***************************************************************************)
LastOf(s) == s[Len(s)]
AllAre(s, x) == \A j \in 1..Len(s) : s[j] = x
ButLast(s) == SubSeq(s, 1, Len(s) - 1)

\* the fields the code maps chain i to
MappedValues(i) == values_to_upsert(chains[i])

\* no two records of the snapshot map to the same chain_id
DistinctKeys ==
    \A i \in Tasks : \A j \in Tasks :
        (i # j /\ HasChainId(MappedValues(i)) /\ HasChainId(MappedValues(j)))
            => MappedValues(i)["chain_id"] # MappedValues(j)["chain_id"]

\* this run follows a run that completed with every call succeeding, and
\* every call of this run has succeeded so far
SecondCleanRun == run >= 2 /\ prev.clean /\ clean

RegistryAsLeft ==
    /\ records = prev.records
    /\ entries = prev.entries
    /\ \A i \in Tasks : sent[i].POST = 0

EntriesOf(values) == {e \in 1..Len(entries) : entries[e] \in Matches(values)}

C2_NoDuplicates ==
    (mainPc = "done" /\ all_chains = chains) =>
        \A i \in Tasks :
            HasChainId(MappedValues(i)) =>
                /\ Cardinality(Matches(MappedValues(i))) <= 1
                /\ Cardinality(EntriesOf(MappedValues(i))) <= 1

(***************************************************************************)
(* C3: a list-link POST answered with 409 is a success: the helper hands   *)
(* the answer back at once, without a retry, and the record is Linked.     *)
(***************************************************************************)
C3_ConflictIsLinked ==
    \A i \in Tasks :
        (req[i].method = "POST" /\ 409 \in Range(req[i].log)) =>
            /\ LastOf(req[i].log) = 409
            /\ 409 \notin Range(ButLast(req[i].log))
            /\ req[i].phase = "returned"
            /\ req[i].result # None

(***************************************************************************)
(* C4: a record's failure, a malformed upsert response included, never     *)
(* leaves the orchestrator and never cancels a sibling: when main ends,    *)
(* every task it created is SkippedNoKey, Failed or Linked.                *)
(***************************************************************************)
C4_Isolation ==
    /\ mainPc # "raised"
    /\ \A i \in Tasks : task[i].state # "Cancelled"
    /\ (mainPc = "done" /\ all_chains = chains) =>
          \A i \in Tasks : task[i].state \in {"SkippedNoKey", "Failed", "Linked"}

(***************************************************************************)
(* C5: a record whose chainId is absent, null or empty is skipped: no PUT  *)
(* and no POST is ever sent for it.                                        *)
(***************************************************************************)
NoNaturalKey(chain_data) == chain_data.chainId \in {JAbsent, JNull, JStr("")}

C5_SkipOnMissingKey ==
    \A i \in Tasks :
        NoNaturalKey(chains[i]) =>
            /\ sent[i].PUT = 0
            /\ sent[i].POST = 0
            /\ task[i].state \in Terminal => task[i].state = "SkippedNoKey"

(***************************************************************************)
(* C6: k < MAX_RETRIES answers of 429 and then a 2xx answer to one upsert  *)
(* PUT: the helper has slept exactly k times, for 1, 2, 4, ... seconds,    *)
(* has sent exactly k + 1 requests and returns the 2xx body; the task's    *)
(* next step then makes the record Upserted (or Linked at once, when it is *)
(* already in the list).                                                   *)
(***************************************************************************)
\* the PUT of task i has returned after only 429s and one 2xx answer
BackedOffThenOk(i) ==
    /\ task[i].state = "Mapped"
    /\ req[i].phase = "returned"
    /\ req[i].log # <<>>
    /\ Is2xx(LastOf(req[i].log))
    /\ AllAre(ButLast(req[i].log), 429)

C6_BackoffState ==
    \A i \in Tasks :
        BackedOffThenOk(i) =>
            LET k == Len(req[i].log) - 1 IN
            /\ k < MAX_RETRIES
            /\ Len(req[i].sleeps) = k
            /\ \A j \in 1..k : req[i].sleeps[j] = INITIAL_RETRY_DELAY * Pow2(j - 1)
            /\ \A j \in 1..k : j > 1 => req[i].sleeps[j] > req[i].sleeps[j - 1]
            /\ sent[i].PUT = k + 1
            /\ req[i].result # None
            /\ req[i].result.kind \in {"ok"} \cup Malformed

C6_BackoffStep ==
    \A i \in Tasks :
        (/\ BackedOffThenOk(i)
         /\ req[i].result.kind = "ok"
         /\ task'[i].state \notin {"Mapped", "Cancelled"})
            => /\ task'[i].state \in {"Upserted", "Linked"}
               /\ task'[i].rid = req[i].result.rid

\* C6: k 429s and a 2xx give k doubling sleeps, k + 1 requests, the body
\* handed back, and the record Upserted by the task's next step
C6_Backoff == []C6_BackoffState /\ [][C6_BackoffStep]_vars

\* C6: four 429s, then the 2xx answer to the fifth PUT
C6_Witness ==
    \E i \in Tasks :
        /\ BackedOffThenOk(i)
        /\ Len(req[i].log) = MAX_RETRIES
        /\ req[i].sleeps = <<1, 2, 4, 8>>
        /\ req[i].result.kind = "ok"

(***************************************************************************)
(* C7: a call answered with 429 on every attempt returns None after        *)
(* exactly MAX_RETRIES requests, not sooner; a 429 is never handed back as *)
(* a success; the record of an exhausted upsert ends Failed.               *)
(***************************************************************************)
\* the call of caller c has seen nothing but 429
OnlyRateLimited(c) == req[c].log # <<>> /\ AllAre(req[c].log, 429)

C7_ExhaustionState ==
    \A c \in Callers :
        /\ (OnlyRateLimited(c) /\ req[c].phase = "returned") =>
              /\ Len(req[c].log) = MAX_RETRIES
              /\ req[c].result = None
              /\ (c # 0 /\ req[c].method = "PUT") => sent[c].PUT = MAX_RETRIES
        /\ (OnlyRateLimited(c) /\ Len(req[c].log) < MAX_RETRIES) =>
              req[c].phase \in {"sleepHeld", "acquire", "inflight"}
        /\ (req[c].phase = "returned" /\ req[c].result # None) =>
              Is2xx(LastOf(req[c].log))

C7_ExhaustionStep ==
    \A i \in Tasks :
        (/\ OnlyRateLimited(i)
         /\ req[i].phase = "returned"
         /\ task[i].state \in {"Mapped", "Upserted"}
         /\ task'[i].state \notin {task[i].state, "Cancelled"})
            => task'[i].state = "Failed"

\* C7: only 429s give None after exactly MAX_RETRIES requests, never a
\* success and never an early failure, and the record then ends Failed
C7_Exhaustion == []C7_ExhaustionState /\ [][C7_ExhaustionStep]_vars

\* C7: the upsert PUT was answered 429 five times and has returned None
C7_Witness ==
    \E i \in Tasks :
        /\ task[i].state = "Mapped"
        /\ req[i].phase = "returned"
        /\ req[i].log = <<429, 429, 429, 429, 429>>
        /\ req[i].result = None

(***************************************************************************)
(* C8: after a PUT is answered with 400 "multiple matches" the duplicates  *)
(* are reconciled and the PUT is sent once more, and only once.            *)
(***************************************************************************)
FirstIndex(s, x) == CHOOSE j \in 1..Len(s) : s[j] = x /\ \A h \in 1..(j - 1) : s[h] # x

\* the requests of the current call that are out or answered
Issued(c) == Len(req[c].log) + (IF req[c].phase = "inflight" THEN 1 ELSE 0)

C8_ReconcileRetryOnce ==
    \A i \in Tasks :
        (req[i].method = "PUT" /\ 400 \in Range(req[i].log)) =>
            /\ Issued(i) <= FirstIndex(req[i].log, 400) + 1
            /\ Issued(i) > FirstIndex(req[i].log, 400) =>
                  Cardinality(Matches(task[i].values)) <= 1

(***************************************************************************)
(* C9: the mapped status is Mainnet for isMainnet = true, Testnet for      *)
(* isMainnet = false, and without isMainnet it is Testnet exactly when     *)
(* isTestnet = true.                                                       *)
(***************************************************************************)
ClaimedStatus(chain_data) ==
    IF chain_data.isMainnet = JBool(TRUE) THEN "Mainnet"
    ELSE IF chain_data.isMainnet = JBool(FALSE) THEN "Testnet"
    ELSE IF chain_data.isTestnet = JBool(TRUE) THEN "Testnet"
    ELSE "Mainnet"

C9_StatusDerivation ==
    \A i \in Tasks :
        "status" \in DOMAIN task[i].values =>
            task[i].values["status"] = JStr(ClaimedStatus(chains[i]))

(***************************************************************************)
(* C10: the fields of every upsert PUT hold no null: "rpc" and "logo_url"  *)
(* are there exactly when the source has a non-null rpcUrl and             *)
(* chainLogoUri, with the source's value; the registry stores no null.     *)
(***************************************************************************)
Present(chain_data, key) == chain_data[key] \notin {JAbsent, JNull}

C10_NullFieldOmission ==
    /\ \A i \in Tasks :
          sent[i].PUT > 0 =>
              LET values == task[i].values IN
              /\ \A k \in DOMAIN values : values[k] \notin {JNull, JAbsent}
              /\ {"chain_id", "name", "status"} \subseteq DOMAIN values
              /\ DOMAIN values \subseteq FieldKeys
              /\ "rpc" \in DOMAIN values <=> Present(chains[i], "rpcUrl")
              /\ "rpc" \in DOMAIN values => values["rpc"] = chains[i].rpcUrl
              /\ "logo_url" \in DOMAIN values <=> Present(chains[i], "chainLogoUri")
              /\ "logo_url" \in DOMAIN values => values["logo_url"] = chains[i].chainLogoUri
              /\ chains[i].chainId = JInt(1) => values["chain_id"] = JStr("1")
    /\ \A r \in 1..Len(records) : \A k \in DOMAIN records[r] : records[r][k] # JNull

\* C10: a PUT for a record without rpcUrl and with a null chainLogoUri
C10_Witness ==
    \E i \in Tasks :
        /\ sent[i].PUT > 0
        /\ chains[i].rpcUrl = JAbsent
        /\ chains[i].chainLogoUri = JNull
        /\ DOMAIN task[i].values = {"chain_id", "name", "status"}
        /\ \E r \in 1..Len(records) : records[r] = task[i].values

(***************************************************************************)
(* C11: a record counts as upserted, and its POST is sent, only with the   *)
(* record id of a 2xx upsert body; a 2xx body without that id makes the    *)
(* record Failed at once, with no POST and no further PUT.                 *)
(***************************************************************************)
C11_State ==
    \A i \in Tasks :
        (task[i].state \in {"Upserted", "Linked"} \/ sent[i].POST > 0) =>
            task[i].rid # 0

C11_Step ==
    \A i \in Tasks :
        ( /\ task[i].state = "Mapped"
          /\ req[i].phase = "returned"
          /\ req[i].result.kind \in Malformed
          /\ task'[i] # task[i]
          /\ mainPc' = "gather" ) =>
            /\ task'[i].state = "Failed"
            /\ task'[i].rid = 0
            /\ req'[i] = IdleFrame
            /\ sent'[i] = sent[i]

C11_NoUpsertWithoutId == []C11_State /\ [][C11_Step]_vars

(***************************************************************************)
(* C12: in every reachable state at most CONCURRENCY_LIMIT callers are     *)
(* inside the "async with api_semaphore" section, however many records     *)
(* are processed concurrently.                                             *)
(***************************************************************************)
InSection == {c \in Callers : HoldsPermit(req[c])}

C12_ConcurrencyCap ==
    /\ Cardinality(InSection) <= CONCURRENCY_LIMIT
    /\ api_semaphore = CONCURRENCY_LIMIT - Cardinality(InSection)

\* the cap is reached: every permit is out and one more caller waits for one
C12_Witness ==
    /\ Cardinality({c \in Callers : req[c].phase = "inflight"}) = CONCURRENCY_LIMIT
    /\ \E c \in Callers : req[c].phase = "acquire"

(***************************************************************************)
(* C13: a caller that sleeps in a retry back-off (after a 429 or another   *)
(* non-2xx status) holds no permit of api_semaphore: the permits that are  *)
(* out are those of the requests in flight, so a ready sibling is never    *)
(* kept waiting by sleepers.                                               *)
(***************************************************************************)
InBackoff == {c \in Callers : req[c].phase \in {"sleepHeld", "sleepFree"}}

InFlight == {c \in Callers : req[c].phase = "inflight"}

C13_BackoffHoldsNoPermit ==
    mainPc = "gather" =>
        /\ api_semaphore = CONCURRENCY_LIMIT - Cardinality(InFlight)
        /\ (InBackoff # {} /\ InFlight = {}) => api_semaphore = CONCURRENCY_LIMIT

(***************************************************************************)
(* C14: within a run each record's pipeline goes                           *)
(*   Pending -> (Mapped | SkippedNoKey) -> (Upserted | Failed)             *)
(*           -> (Linked | Failed)                                          *)
(* and never leaves SkippedNoKey, Failed or Linked; a POST is sent only    *)
(* after the record's own PUT has succeeded, with the record id that PUT   *)
(* returned.  A pipeline that is cancelled from outside just stops; a      *)
(* record found on the list goes through Upserted to Linked in one step.   *)
(***************************************************************************)
Follows(from, to) ==
    \/ from = "Pending" /\ to \in {"Mapped", "SkippedNoKey"}
    \/ from = "Mapped" /\ to \in {"Upserted", "Failed", "Linked"}
    \/ from = "Upserted" /\ to \in {"Linked", "Failed"}
    \/ from \in {"Pending", "Mapped", "Upserted"} /\ to = "Cancelled"

C14_State ==
    \A i \in Tasks :
        /\ sent[i].POST > 0 => (sent[i].PUT > 0 /\ task[i].rid # 0)
        /\ task[i].state \in {"Upserted", "Linked"} => task[i].rid # 0

C14_Step ==
    \A i \in Tasks :
        run' = run =>
            /\ task'[i].state # task[i].state =>
                   Follows(task[i].state, task'[i].state)
            /\ task'[i].rid # task[i].rid =>
                   /\ task[i].state = "Mapped"
                   /\ req[i].method = "PUT"
                   /\ req[i].phase = "returned"
                   /\ Is2xx(LastOf(req[i].log))
                   /\ task'[i].rid = req[i].result.rid
            /\ sent'[i].POST > sent[i].POST =>
                   /\ task[i].state = "Upserted"
                   /\ req[i].method = "POST"
                   /\ task[i].rid # 0

C14_PerRecordOrdering == []C14_State /\ [][C14_Step]_vars

(***************************************************************************)
(* C15: a call that was answered with a non-2xx status other than 429      *)
(* (and other than the 409 of C3) makes its record Failed, whatever the    *)
(* registry answers to later attempts: after such an answer to the PUT     *)
(* the record is not upserted and no POST is sent for it, and after such   *)
(* an answer to the POST the record is not Linked.                         *)
(***************************************************************************)
FatalStatus(status) == status \notin {0, 409, 429} /\ ~Is2xx(status)

AnsweredFatal(c) == \E k \in 1..Len(req[c].log) : FatalStatus(req[c].log[k])

C15_NonRetryableFatal ==
    [][\A i \in Tasks :
          ( /\ AnsweredFatal(i)
            /\ req[i].phase = "returned"
            /\ task'[i] # task[i]
            /\ mainPc' = "gather" ) =>
              /\ task'[i].state = "Failed"
              /\ sent'[i].POST = sent[i].POST]_vars

(***************************************************************************)
(* C16: when the chain fetch fails or yields no chains, the run ends       *)
(* without a registry request: main never reaches the membership GET, no   *)
(* task is started, no PUT and no POST is sent, and the registry is as it  *)
(* was when the run started.                                               *)
(***************************************************************************)
C16_SourceUnavailable ==
    (mainPc # "fetch" /\ all_chains = <<>>) =>
        /\ mainPc = "done"
        /\ \A c \in Callers : req[c] = IdleFrame
        /\ api_semaphore = CONCURRENCY_LIMIT
        /\ \A i \in Tasks : task[i] = PendingTask /\ sent[i] = [PUT |-> 0, POST |-> 0]
        /\ existing = {}
        /\ records = prev.records
        /\ entries = prev.entries

\* the fetch has failed for a source that has chains, against a registry
\* that has records
C16_Witness ==
    /\ mainPc = "done"
    /\ all_chains = <<>>
    /\ chains # <<>>
    /\ records # <<>>

(***************************************************************************)
(* C17: when the run has been interrupted, every record whose upsert PUT   *)
(* had succeeded is on the list or has been reported as Failed: none is    *)
(* left upserted, unlinked and unreported.                                 *)
(***************************************************************************)
C17_CancellationClean ==
    mainPc = "interrupted" =>
        \A i \in Tasks :
            task[i].rid # 0 =>
                \/ task[i].rid \in Range(entries)
                \/ task[i].state = "Failed"

(***************************************************************************)
(* C18: within one run at most one pipeline sends a list-link POST for     *)
(* any record id, also when two source records have the same chainId.      *)
(***************************************************************************)
PostersOf(rid) == {i \in Tasks : task[i].rid = rid /\ sent[i].POST > 0}

C18_OnePostPerRecord ==
    \A rid \in 1..Len(records) : Cardinality(PostersOf(rid)) <= 1

(***************************************************************************)
(* C19, as claimed: no POST is sent for a record that was on the list      *)
(* when the run started, whether or not the membership enumeration got     *)
(* every page.                                                             *)
(***************************************************************************)
MembersAtStart == Range(prev.entries)

C19_SnapshotSafeAlways ==
    \A i \in Tasks : sent[i].POST > 0 => task[i].rid \notin MembersAtStart

(***************************************************************************)
(* C19, amended: no POST is sent for a record that was on the list when    *)
(* the run started and that the membership enumeration collected; when     *)
(* every request of the run so far was answered 2xx, the enumeration has   *)
(* collected every such record.                                            *)
(***************************************************************************)
C19_SnapshotSafe ==
    /\ \A i \in Tasks :
          sent[i].POST > 0 => task[i].rid \notin (MembersAtStart \cap existing)
    /\ (mainPc \in {"gather", "done"} /\ all_chains # <<>> /\ clean) =>
          MembersAtStart \subseteq existing

\* a record that was on the list at the start has gone through its PUT and
\* is Linked without a POST
C19_Witness ==
    \E i \in Tasks :
        /\ task[i].state = "Linked"
        /\ task[i].rid \in MembersAtStart
        /\ MembersAtStart \subseteq existing
        /\ sent[i].PUT > 0
        /\ sent[i].POST = 0

(***************************************************************************)
(* C20: whatever the registry answers, one call of _make_attio_request     *)
(* sends at most MAX_RETRIES requests and every step of it brings it       *)
(* nearer to its return; it returns the body of a 2xx answer or None, a    *)
(* body only for a 2xx answer; and once it has returned it holds no        *)
(* permit: the permits that are out are those of the calls in flight or    *)
(* asleep inside the section.                                              *)
(***************************************************************************)
Active(frame) == frame.phase \in {"acquire", "inflight", "sleepHeld", "sleepFree"}

\* how far a call is: three places per attempt, the return after them all
Rank(frame) ==
    IF frame.phase = "returned" THEN 3 * MAX_RETRIES
    ELSE 3 * frame.attempt
         + (CASE frame.phase = "acquire" -> 0
              [] frame.phase = "inflight" -> 1
              [] OTHER -> 2)

C20_State ==
    /\ \A c \in Callers :
          /\ Issued(c) <= MAX_RETRIES
          /\ (c # 0 /\ Active(req[c])) => sent[c][req[c].method] = Issued(c)
          /\ Active(req[c]) => req[c].attempt < MAX_RETRIES
          /\ req[c].phase = "returned" =>
                /\ req[c].log # <<>>
                /\ (req[c].result # None) <=> Is2xx(LastOf(req[c].log))
                /\ ~HoldsPermit(req[c])
    /\ api_semaphore =
          CONCURRENCY_LIMIT
          - Cardinality({c \in Callers : req[c].phase \in {"inflight", "sleepHeld"}})

C20_Step ==
    \A c \in Callers :
        (Active(req[c]) /\ req'[c] # req[c] /\ req'[c].phase # "idle") =>
            /\ req'[c].method = req[c].method
            /\ Rank(req'[c]) > Rank(req[c])

C20_BoundedHelper == []C20_State /\ [][C20_Step]_vars

\* a call has met an exception, a 429 and a 500, and has returned the body
\* of the 2xx answer to its fifth and last request
C20_Witness ==
    \E c \in Callers :
        /\ req[c].phase = "returned"
        /\ Len(req[c].log) = MAX_RETRIES
        /\ {0, 429, 500} \subseteq Range(req[c].log)
        /\ Is2xx(LastOf(req[c].log))
        /\ req[c].result # None
        /\ api_semaphore = CONCURRENCY_LIMIT

====
